---- MODULE Spec2Model ----
(***************************************************************************)
(* GoogleScraper/core.py: the orchestrator main(), the keyword             *)
(* partitioner assign_keywords_to_scrapers(), the proxy assignment of the  *)
(* sel dispatch, the scrape-job threads and the ResultsHandler thread that *)
(* drains the result queue into the database.                              *)
(*                                                                         *)
(* Texts (str) are sequences of one-character strings; None is the text    *)
(* <<"None">>, which no real text equals. A Python set is a TLA+ set; its  *)
(* iteration order is one fixed but unspecified order (SetToSeq). A value   *)
(* that main does not read again is reset to its initial value at the step *)
(* that read it last, so that runs that differ only in it continue alike.  *)
(***************************************************************************)
EXTENDS Integers, Sequences, FiniteSets, TLC

\* ------------------------------------------------------------------ bounds
\* Keyword lines in the 'keywords' setting or the keyword file of a run.
MaxKeywords == 5
\* Configured worker count (num_browser_instances / num_threads) of a run.
MaxWorkers == 2
\* Proxies returned by the proxy source of a run.
MaxProxies == 1
\* Result batches the scrape jobs of a run put on the queue, all together.
MaxBatches == 3
\* Configured commit_interval.
MaxCommitInterval == 2
\* Scrape jobs of a run of the sel branch taken alone (SpecSel).
MaxJobs == 3
\* Scrape jobs of a fairly scheduled run of the sel branch (FairSpecSel).
MaxFairJobs == 2
\* Keywords, workers and pool length of the partitioning taken alone
\* (SpecAssign).
PartKeywords == 5
PartWorkers == 4
PartProxies == 4

\* ------------------------------------------------------------------ values
None == <<"None">>
NL == "\n"
Alphabet == <<"a", "b", "c", "d", "e", "f", "g", "h">>
ProxyNames == << <<"p1">>, <<"p2">>, <<"p3">>, <<"p4">>, <<"p5">>, <<"p6">> >>

\* Python truthiness of a str-or-None value and of a collection.
Truthy(x) == x # None /\ x # <<>>
TruthySet(s) == s # {}

\* ------------------------------------------------------------------ str
\* The index of the first sep in text at or after position from, 0 if none.
RECURSIVE Find(_, _, _)
Find(text, sep, from) ==
    IF from > Len(text) THEN 0
    ELSE IF text[from] = sep THEN from
    ELSE Find(text, sep, from + 1)

\* str.split(sep): the pieces between the separators; ''.split(sep) = [''].
RECURSIVE Split(_, _)
Split(text, sep) ==
    LET k == Find(text, sep, 1) IN
    IF k = 0 THEN <<text>>
    ELSE <<SubSeq(text, 1, k - 1)>> \o Split(SubSeq(text, k + 1, Len(text)), sep)

IsSpace(c) == c \in {" ", NL}

\* str.strip(): leading and trailing whitespace removed.
RECURSIVE Strip(_)
Strip(text) ==
    IF text = <<>> THEN text
    ELSE IF IsSpace(text[1]) THEN Strip(Tail(text))
    ELSE IF IsSpace(text[Len(text)]) THEN Strip(SubSeq(text, 1, Len(text) - 1))
    ELSE text

Range(s) == {s[k] : k \in 1..Len(s)}

\* set(text.split('\n')), line 170.
KeywordsOfSetting(text) == Range(Split(text, NL))

\* set([line.strip() for line in text.split('\n')]), line 188.
KeywordsOfFile(text) == {Strip(l) : l \in Range(Split(text, NL))}

\* The iteration order of a Python set: fixed for a given set, unspecified.
RECURSIVE SetToSeq(_)
SetToSeq(s) ==
    IF s = {} THEN <<>>
    ELSE LET x == CHOOSE y \in s : TRUE IN <<x>> \o SetToSeq(s \ {x})

\* ------------------------------------------------------------------ inputs
\* n keyword lines "a", "b", ... joined by newlines.
RECURSIVE LinesText(_)
LinesText(n) ==
    IF n = 0 THEN <<>>
    ELSE IF n = 1 THEN <<Alphabet[1]>>
    ELSE LinesText(n - 1) \o <<NL, Alphabet[n]>>

\* Values of the 'keywords' setting: absent (the default '') or n lines.
KeywordsSettings == {LinesText(n) : n \in 0..MaxKeywords}

\* Contents of a keyword file: n lines, with or without a final newline, and
\* one with a repeated line.
FileTexts ==
    {LinesText(n) : n \in 0..MaxKeywords}
        \cup {LinesText(n) \o <<NL>> : n \in 1..MaxKeywords}
        \cup {<<"a", NL, "a", NL, "b", NL>>}

\* ------------------------------------------------------------------ partitioning
\* math.ceil(a / b) for a >= 0, b >= 1.
Ceil(a, b) == (a + b - 1) \div b

\* GoogleScraper.utils.grouper: fixed-size chunks of n, the last one filled up
\* with fillvalue.
grouper(iterable, n, fillvalue) ==
    [g \in 1..Ceil(Len(iterable), n) |->
        [k \in 1..n |->
            IF (g - 1) * n + k <= Len(iterable)
            THEN iterable[(g - 1) * n + k]
            ELSE fillvalue]]

\* Lines 127-135: the worker count of the configured scrape method.
NumScrapers(mode, num_browser_instances, num_threads) ==
    IF mode = "sel" THEN num_browser_instances
    ELSE IF mode = "http" THEN num_threads
    ELSE 0

\* Line 139 divides by num_scrapers: ZeroDivisionError when it is 0.
AssignRaises(all_keywords, count) ==
    Len(all_keywords) > count /\ count = 0

\* As AssignKeywordsToScrapers, but with no more groups than workers: the
\* groups beyond the worker count are dropped.
AssignKeywordsCapped(all_keywords, count) ==
    LET groups ==
            IF Len(all_keywords) > count
            THEN grouper(all_keywords, Len(all_keywords) \div count, None)
            ELSE [k \in 1..Len(all_keywords) |-> <<all_keywords[k]>>]
    IN  SubSeq(groups, 1, IF Len(groups) < count THEN Len(groups) ELSE count)

\* Lines 138-144, for an argument on which line 139 does not raise.
AssignKeywordsToScrapers(all_keywords, count) ==
    IF Len(all_keywords) > count
    THEN grouper(all_keywords, Len(all_keywords) \div count, None)
    ELSE [k \in 1..Len(all_keywords) |-> <<all_keywords[k]>>]

\* ------------------------------------------------------------------ proxies
\* Line 247.
ChunksPerProxy(groups, pool) == Ceil(Len(groups), Len(pool))

\* As ProxyOf, but the proxies taken in turn: proxies[i % len(proxies)].
ProxyOfInTurn(i, groups, pool) == pool[(i % Len(pool)) + 1]

\* Line 249: the proxy of the job with browser_num i (0-based).
ProxyOf(i, groups, pool) ==
    pool[(i \div ChunksPerProxy(groups, pool)) + 1]

\* Lines 248-249: one SelScrape per keyword group, the group handed over as is.
SelScrapeJobs(groups, pool) ==
    [j \in 1..Len(groups) |->
        [chunk |-> groups[j],
         browser_num |-> j - 1,
         proxy |-> ProxyOf(j - 1, groups, pool)]]

\* Lines 273-274: one HttpScrape per keyword group.
HttpScrapeJobs(groups) ==
    [j \in 1..Len(groups) |->
        [chunk |-> groups[j], browser_num |-> j - 1, proxy |-> None]]

\* ------------------------------------------------------------------ state
VARIABLES
    pc,              \* main's position
    outcome,         \* "running", main's return value or the exception it raised
    cfg_keywords,    \* the 'keywords' setting (its default is '')
    keyword,         \* line 169
    kwfile,          \* line 168
    file_text,       \* the text read from the keyword file, None when none was read
    keywords,        \* lines 170, 182, 188
    use_own_ip,      \* Config['SCRAPING']['use_own_ip']
    search_type,     \* Config['SCRAPING']['search_type'], read at line 204
    simulate,        \* Config['GLOBAL']['simulate'], read at line 209
    proxies,         \* lines 196-201, 243
    conn,            \* the sqlite3 connection: "none", "open", "closed"
    scrapemethod,    \* Config['SCRAPING']['scrapemethod']
    num_scrapers,    \* lines 131-135
    remaining,       \* lines 224, 226
    kwgroups,        \* line 228
    scrapejobs,      \* lines 239, 272: the jobs constructed, in order
    jobState,        \* per job: "new", "running", "finished", "crashed"
    emitted,         \* per job: batches put on Q so far
    t,               \* the job the start or join loop of main is at
    Q,               \* the queue.Queue of line 240
    handler,         \* the ResultsHandler thread: "none", "running", "stopped", "crashed"
    commit_interval, \* Config['GLOBAL']['commit_interval']
    i,               \* ResultsHandler.run's counter
    dequeued,        \* the items the handler got from Q, in order
    rows,            \* batches inserted through the connection, in order
    committed,       \* how many of rows are committed
    commits          \* commits issued by ResultsHandler.run

vars == <<pc, outcome, cfg_keywords, keyword, kwfile, file_text, keywords, use_own_ip, proxies,
          search_type, simulate, conn, scrapemethod, num_scrapers, remaining, kwgroups, scrapejobs, jobState, emitted, t,
          Q, handler, commit_interval, i, dequeued, rows, committed, commits>>

inputVars == <<cfg_keywords, keyword, kwfile, file_text, keywords>>
proxyVars == <<use_own_ip, proxies>>
flagVars == <<search_type, simulate>>
planVars == <<scrapemethod, num_scrapers, remaining, kwgroups>>
jobVars == <<scrapejobs, jobState, emitted, t>>
handlerVars == <<handler, commit_interval, i, dequeued>>
dbVars == <<rows, committed, commits>>

\* A result batch put by job j, its k-th; and Config['GLOBAL']['all_processed_sig'].
Batch(j, k) == [type |-> "batch", job |-> j, seq |-> k]
all_processed_sig == [type |-> "sig", job |-> 0, seq |-> 0]

ScrapeMethods == {"sel", "http", "http_async", "other"}
Terminated(j) == jobState[j] \in {"finished", "crashed"}

Init ==
    /\ pc = "parse_cmd_args"
    /\ outcome = "running"
    /\ cfg_keywords = None
    /\ keyword = None
    /\ kwfile = None
    /\ file_text = None
    /\ keywords = {}
    /\ use_own_ip = FALSE
    /\ proxies = <<>>
    /\ search_type = "unread"
    /\ simulate = FALSE
    /\ conn = "none"
    /\ scrapemethod = "unread"
    /\ num_scrapers = 0
    /\ remaining = <<>>
    /\ kwgroups = <<>>
    /\ scrapejobs = <<>>
    /\ jobState = <<>>
    /\ emitted = <<>>
    /\ t = 0
    /\ Q = <<>>
    /\ handler = "none"
    /\ commit_interval = 1
    /\ i = 0
    /\ dequeued = <<>>
    /\ rows = <<>>
    /\ committed = 0
    /\ commits = 0

\* main ends: it returns value or raises the exception value.
Ends(value) == pc' = "done" /\ outcome' = value

\* ------------------------------------------------------------------ main
\* Lines 159-164: view_config prints the configuration file and returns.
ParseCmdArgs ==
    /\ pc = "parse_cmd_args"
    /\ \E view_config \in BOOLEAN :
        IF view_config THEN Ends("None") ELSE pc' = "read_inputs" /\ outcome' = outcome
    /\ UNCHANGED <<inputVars, proxyVars, flagVars, conn, planVars, jobVars, Q, handlerVars, dbVars>>

\* Line 174: the guard of the missing-keyword error.
NoKeywordGiven(kw, kws, file) == ~(Truthy(kw) \/ TruthySet(kws)) /\ ~Truthy(file)

\* Lines 166-175: the keyword settings are read and checked.
ReadInputs ==
    /\ pc = "read_inputs"
    /\ \E file \in {None, <<"f">>}, kw \in {None, <<"k">>}, setting \in KeywordsSettings :
        /\ kwfile' = file
        /\ keyword' = kw
        /\ cfg_keywords' = setting
        /\ keywords' = KeywordsOfSetting(setting)
        /\ IF NoKeywordGiven(kw, KeywordsOfSetting(setting), file)
           THEN Ends("InvalidConfigurationException")
           ELSE pc' = "fix_cache_names" /\ outcome' = outcome
    /\ UNCHANGED <<file_text, proxyVars, flagVars, conn, planVars, jobVars, Q, handlerVars, dbVars>>

\* Lines 177-180: fix_cache_names repairs the cache names and returns.
FixCacheNames ==
    /\ pc = "fix_cache_names"
    /\ \E fix_cache_names \in BOOLEAN :
        IF fix_cache_names THEN Ends("None")
        ELSE pc' = "load_keywords" /\ outcome' = outcome
    /\ UNCHANGED <<inputVars, proxyVars, flagVars, conn, planVars, jobVars, Q, handlerVars, dbVars>>

\* Line 182.
SingleOrSetting(kw, kws) == IF Truthy(kw) THEN {kw} ELSE kws

\* Lines 182-188: the working keywords; a keyword file replaces the others.
\* kwfile, keyword and the setting are not read after this step.
LoadKeywords ==
    /\ pc = "load_keywords"
    /\ IF Truthy(kwfile)
       THEN \E exists \in BOOLEAN :
                IF exists
                THEN /\ \E text \in FileTexts :
                          file_text' = text /\ keywords' = KeywordsOfFile(text)
                     /\ pc' = "check_parameters" /\ outcome' = outcome
                ELSE /\ keywords' = SingleOrSetting(keyword, keywords)
                     /\ file_text' = file_text
                     /\ Ends("InvalidConfigurationException")
       ELSE /\ keywords' = SingleOrSetting(keyword, keywords)
            /\ file_text' = file_text
            /\ pc' = "check_parameters" /\ outcome' = outcome
    /\ kwfile' = None /\ keyword' = None /\ cfg_keywords' = None
    /\ UNCHANGED <<proxyVars, flagVars, conn, planVars, jobVars, Q, handlerVars, dbVars>>

\* Lines 190-194: more than 100 results per page is refused. The text of the
\* keyword file is not read after line 188.
CheckParameters ==
    /\ pc = "check_parameters"
    /\ \E num_results_per_page \in {10, 101} :
        IF num_results_per_page > 100
        THEN Ends("InvalidConfigurationException")
        ELSE pc' = "load_proxies" /\ outcome' = outcome
    /\ file_text' = None
    /\ UNCHANGED <<cfg_keywords, keyword, kwfile, keywords, proxyVars, flagVars, conn, planVars, jobVars, Q, handlerVars, dbVars>>

\* Lines 196-201: the proxies of the proxy database or file, if one is set.
LoadProxies ==
    /\ pc = "load_proxies"
    /\ \E count \in 0..MaxProxies : proxies' = SubSeq(ProxyNames, 1, count)
    /\ \E own \in BOOLEAN : use_own_ip' = own
    /\ pc' = "check_search_type"
    /\ UNCHANGED <<outcome, inputVars, flagVars, conn, planVars, jobVars, Q, handlerVars, dbVars>>

valid_search_types == {"normal", "video", "news", "image"}

\* Lines 204-205: for a search type that is not valid the exception is
\* constructed, with no raise statement: nothing is raised for any type.
SearchTypeRaises(type) == type \notin valid_search_types /\ FALSE

\* Lines 203-208: the search type is checked; maybe_create_db opens the
\* connection.
CheckSearchType ==
    /\ pc = "check_search_type"
    /\ \E type \in {"normal", "maps"} :
        /\ search_type' = type
        /\ IF SearchTypeRaises(type)
           THEN Ends("InvalidConfigurationException") /\ conn' = conn
           ELSE pc' = "simulate" /\ outcome' = outcome /\ conn' = "open"
    /\ UNCHANGED <<inputVars, proxyVars, simulate, planVars, jobVars, Q, handlerVars, dbVars>>

\* The simulate step with its return statement (line 220) left out.
SimulateGoesOn ==
    /\ pc = "simulate"
    /\ \E flag \in BOOLEAN : simulate' = flag
    /\ pc' = "cache" /\ outcome' = outcome
    /\ search_type' = "unread"
    /\ UNCHANGED <<inputVars, proxyVars, conn, planVars, jobVars, Q, handlerVars, dbVars>>

\* Lines 209-220: simulate reports the scope of the run and returns.
Simulate ==
    /\ pc = "simulate"
    /\ \E flag \in BOOLEAN :
        /\ simulate' = flag
        /\ IF flag THEN Ends("None") ELSE pc' = "cache" /\ outcome' = outcome
    /\ search_type' = "unread"
    /\ UNCHANGED <<inputVars, proxyVars, conn, planVars, jobVars, Q, handlerVars, dbVars>>

\* What parse_all_cached_files may leave to scrape: the keywords without the
\* cached ones, here the first k of them for any k (which ones are cached
\* makes no difference to main).
CacheOutcomes(kws) ==
    {SubSeq(SetToSeq(kws), k + 1, Cardinality(kws)) : k \in 0..Cardinality(kws)}

\* Lines 223-226: the keywords that remain after the cache was parsed.
Cache ==
    /\ pc = "cache"
    /\ \E do_caching \in BOOLEAN :
        IF do_caching
        THEN \E rest \in CacheOutcomes(keywords) : remaining' = rest
        ELSE remaining' = SetToSeq(keywords)
    /\ keywords' = {}
    /\ pc' = "assign"
    /\ UNCHANGED <<outcome, cfg_keywords, keyword, kwfile, file_text, proxyVars, flagVars, conn,
                   scrapemethod, num_scrapers, kwgroups, jobVars, Q, handlerVars, dbVars>>

\* Line 228: assign_keywords_to_scrapers(remaining).
Assign ==
    /\ pc = "assign"
    /\ \E mode \in ScrapeMethods, num_browser_instances \in 1..MaxWorkers,
          num_threads \in 1..MaxWorkers :
        LET count == NumScrapers(mode, num_browser_instances, num_threads) IN
        /\ scrapemethod' = mode
        /\ num_scrapers' = count
        /\ IF AssignRaises(remaining, count)
           THEN kwgroups' = kwgroups /\ Ends("ZeroDivisionError")
           ELSE /\ kwgroups' = AssignKeywordsToScrapers(remaining, count)
                /\ pc' = "dispatch" /\ outcome' = outcome
    /\ UNCHANGED <<inputVars, proxyVars, flagVars, conn, remaining, jobVars, Q, handlerVars,
                   dbVars>>

\* ------------------------------------------------------------------ dispatch
NewJobs(jobs) ==
    /\ scrapejobs' = jobs
    /\ jobState' = [j \in 1..Len(jobs) |-> "new"]
    /\ emitted' = [j \in 1..Len(jobs) |-> 0]
    /\ t' = 1
    /\ num_scrapers' = 0 /\ remaining' = <<>> /\ kwgroups' = <<>>

\* Lines 231-249: the sel branch up to the construction of the SelScrape jobs.
DispatchSel ==
    /\ pc = "dispatch"
    /\ scrapemethod = "sel"
    /\ IF use_own_ip
       THEN /\ proxies' = Append(proxies, None)
            /\ NewJobs(SelScrapeJobs(kwgroups, proxies'))
            /\ pc' = "start_jobs" /\ outcome' = outcome
       ELSE IF proxies = <<>>
       THEN /\ Ends("InvalidConfigurationException")
            /\ UNCHANGED <<proxies, num_scrapers, remaining, kwgroups, jobVars>>
       ELSE /\ NewJobs(SelScrapeJobs(kwgroups, proxies))
            /\ proxies' = proxies
            /\ pc' = "start_jobs" /\ outcome' = outcome
    /\ UNCHANGED <<inputVars, use_own_ip, flagVars, conn, scrapemethod, Q, handlerVars,
                   dbVars>>

\* Lines 271-274: the http branch, one HttpScrape per keyword group.
DispatchHttp ==
    /\ pc = "dispatch"
    /\ scrapemethod = "http"
    /\ NewJobs(HttpScrapeJobs(kwgroups))
    /\ pc' = "start_jobs"
    /\ UNCHANGED <<outcome, inputVars, proxyVars, flagVars, conn, scrapemethod, Q,
                   handlerVars, dbVars>>

\* Lines 282-283: http_async does nothing; main falls off its end.
DispatchHttpAsync ==
    /\ pc = "dispatch"
    /\ scrapemethod = "http_async"
    /\ Ends("None")
    /\ UNCHANGED <<inputVars, proxyVars, flagVars, conn, planVars, jobVars, Q, handlerVars,
                   dbVars>>

\* Lines 284-285.
DispatchOther ==
    /\ pc = "dispatch"
    /\ scrapemethod \notin {"sel", "http", "http_async"}
    /\ Ends("InvalidConfigurationException")
    /\ UNCHANGED <<inputVars, proxyVars, flagVars, conn, planVars, jobVars, Q, handlerVars,
                   dbVars>>

\* Lines 251-252 and 276-277: the next job is started, its keyword group from
\* then on the thread's own; after the last one the sel branch goes on to its
\* handler, the http branch to its joins.
StartJob ==
    /\ pc = "start_jobs"
    /\ IF t <= Len(scrapejobs)
       THEN /\ jobState' = [jobState EXCEPT ![t] = "running"]
            /\ scrapejobs' = [scrapejobs EXCEPT ![t].chunk = <<>>]
            /\ t' = t + 1
            /\ pc' = pc
       ELSE /\ pc' = IF scrapemethod = "sel" THEN "start_handler" ELSE "join_jobs"
            /\ t' = 1
            /\ UNCHANGED <<jobState, scrapejobs>>
    /\ UNCHANGED <<outcome, inputVars, proxyVars, flagVars, conn, planVars, emitted, Q,
                   handlerVars, dbVars>>

\* Lines 254-255: the ResultsHandler is constructed on Q and conn and started.
StartHandler ==
    /\ pc = "start_handler"
    /\ handler' = "running"
    /\ \E c \in 1..MaxCommitInterval : commit_interval' = c
    /\ pc' = "join_jobs"
    /\ UNCHANGED <<outcome, inputVars, proxyVars, flagVars, conn, planVars, jobVars, Q, i,
                   dequeued, dbVars>>

\* As Joinable, but a join that does not wait for the thread.
JoinableAtOnce(j) == TRUE

\* Thread.join returns once the thread has ended, however it ended.
Joinable(j) == Terminated(j)

\* Lines 257-258 and 279-280: main waits for the next job; after the last one
\* the sel branch goes on to the signal, the http branch returns.
JoinJob ==
    /\ pc = "join_jobs"
    /\ IF t <= Len(scrapejobs)
       THEN /\ Joinable(t)
            /\ t' = t + 1
            /\ pc' = pc /\ outcome' = outcome
       ELSE /\ t' = t
            /\ IF scrapemethod = "sel"
               THEN pc' = "put_signal" /\ outcome' = outcome
               ELSE Ends("None")
    /\ UNCHANGED <<inputVars, proxyVars, flagVars, conn, planVars, scrapejobs, jobState,
                   emitted, Q, handlerVars, dbVars>>

\* main's step at line 261 with the put left out.
PutSignalSkipped ==
    /\ pc = "put_signal"
    /\ pc' = "join_handler"
    /\ UNCHANGED <<outcome, inputVars, proxyVars, flagVars, conn, planVars, jobVars, Q,
                   handlerVars, dbVars>>

\* Line 261.
PutSignal ==
    /\ pc = "put_signal"
    /\ Q' = Append(Q, all_processed_sig)
    /\ pc' = "join_handler"
    /\ UNCHANGED <<outcome, inputVars, proxyVars, flagVars, conn, planVars, jobVars,
                   handlerVars, dbVars>>

\* main's step at line 262 with no wait for the handler thread.
JoinHandlerAtOnce ==
    /\ pc = "join_handler"
    /\ pc' = "commit"
    /\ UNCHANGED <<outcome, inputVars, proxyVars, flagVars, conn, planVars, jobVars, Q,
                   handlerVars, dbVars>>

\* Line 262: main waits for the handler thread to end, however it ended.
JoinHandler ==
    /\ pc = "join_handler"
    /\ handler \in {"stopped", "crashed"}
    /\ pc' = "commit"
    /\ UNCHANGED <<outcome, inputVars, proxyVars, flagVars, conn, planVars, jobVars, Q,
                   handlerVars, dbVars>>

\* main's step at line 264 with the commit left out.
CommitSkipped ==
    /\ pc = "commit"
    /\ pc' = "return"
    /\ UNCHANGED <<outcome, inputVars, proxyVars, flagVars, conn, planVars, jobVars, Q,
                   handlerVars, dbVars>>

\* Line 264: conn.commit() by main.
Commit ==
    /\ pc = "commit"
    /\ committed' = Len(rows)
    /\ pc' = "return"
    /\ UNCHANGED <<outcome, inputVars, proxyVars, flagVars, conn, planVars, jobVars, Q,
                   handlerVars, rows, commits>>

\* Lines 266-269: the connection is returned, or closed.
Return ==
    /\ pc = "return"
    /\ \E return_results \in BOOLEAN :
        IF return_results
        THEN Ends("conn") /\ conn' = conn
        ELSE Ends("None") /\ conn' = "closed"
    /\ UNCHANGED <<inputVars, proxyVars, flagVars, planVars, jobVars, Q, handlerVars, dbVars>>

\* ------------------------------------------------------------------ scrape jobs
RECURSIVE Sum(_)
Sum(counts) == IF counts = <<>> THEN 0 ELSE Head(counts) + Sum(Tail(counts))

\* A running SelScrape puts a result batch on Q (the jobs of a run put at most
\* MaxBatches batches).
JobPut(j) ==
    /\ scrapemethod = "sel"
    /\ jobState[j] = "running"
    /\ Sum(emitted) < MaxBatches
    /\ Q' = Append(Q, Batch(j, emitted[j] + 1))
    /\ emitted' = [emitted EXCEPT ![j] = @ + 1]
    /\ UNCHANGED <<pc, outcome, inputVars, proxyVars, flagVars, conn, planVars, scrapejobs,
                   jobState, t, handlerVars, dbVars>>

\* A running job returns from run().
JobFinish(j) ==
    /\ jobState[j] = "running"
    /\ jobState' = [jobState EXCEPT ![j] = "finished"]
    /\ UNCHANGED <<pc, outcome, inputVars, proxyVars, flagVars, conn, planVars, scrapejobs,
                   emitted, t, Q, handlerVars, dbVars>>

\* A running job ends by an exception in its thread.
JobCrash(j) ==
    /\ jobState[j] = "running"
    /\ jobState' = [jobState EXCEPT ![j] = "crashed"]
    /\ UNCHANGED <<pc, outcome, inputVars, proxyVars, flagVars, conn, planVars, scrapejobs,
                   emitted, t, Q, handlerVars, dbVars>>

\* ------------------------------------------------------------------ ResultsHandler
\* As InsertInDb, but the statements never reach the table.
InsertInDbLost(table, e) == table

\* Lines 50-67: the batch becomes a row of serp_page (with its links).
InsertInDb(table, e) == Append(table, e)

\* Line 80, with the counter as it is before line 83 increments it.
CommitDue(count, interval) == count > 0 /\ (count % interval) = 0

\* Line 75.
IsSignal(item) == item = all_processed_sig

\* Lines 74-83, one turn of the loop on a batch: get, insert, commit when due,
\* count.
HandlerBatch ==
    /\ handler = "running"
    /\ Q # <<>>
    /\ ~IsSignal(Head(Q))
    /\ Q' = Tail(Q)
    /\ dequeued' = Append(dequeued, Head(Q))
    /\ rows' = InsertInDb(rows, Head(Q))
    /\ IF CommitDue(i, commit_interval)
       THEN committed' = Len(rows') /\ commits' = commits + 1
       ELSE committed' = committed /\ commits' = commits
    /\ i' = i + 1
    /\ UNCHANGED <<pc, outcome, inputVars, proxyVars, flagVars, conn, planVars, jobVars,
                   handler, commit_interval>>

\* Lines 74-78 when _insert_in_db raises: the exception ends the thread.
HandlerInsertFails ==
    /\ handler = "running"
    /\ Q # <<>>
    /\ ~IsSignal(Head(Q))
    /\ Q' = Tail(Q)
    /\ dequeued' = Append(dequeued, Head(Q))
    /\ handler' = "crashed"
    /\ UNCHANGED <<pc, outcome, inputVars, proxyVars, flagVars, conn, planVars, jobVars,
                   commit_interval, i, dbVars>>

\* Lines 74-77: the termination signal ends the loop.
HandlerSignal ==
    /\ handler = "running"
    /\ Q # <<>>
    /\ IsSignal(Head(Q))
    /\ Q' = Tail(Q)
    /\ dequeued' = Append(dequeued, Head(Q))
    /\ handler' = "stopped"
    /\ UNCHANGED <<pc, outcome, inputVars, proxyVars, flagVars, conn, planVars, jobVars,
                   commit_interval, i, dbVars>>

\* ------------------------------------------------------------------ specification
Jobs == 1..Len(scrapejobs)

Next ==
    \/ ParseCmdArgs
    \/ ReadInputs
    \/ FixCacheNames
    \/ LoadKeywords
    \/ CheckParameters
    \/ LoadProxies
    \/ CheckSearchType
    \/ Simulate
    \/ Cache
    \/ Assign
    \/ DispatchSel
    \/ DispatchHttp
    \/ DispatchHttpAsync
    \/ DispatchOther
    \/ StartJob
    \/ StartHandler
    \/ JoinJob
    \/ PutSignal
    \/ JoinHandler
    \/ Commit
    \/ Return
    \/ \E j \in Jobs : JobPut(j)
    \/ \E j \in Jobs : JobFinish(j)
    \/ \E j \in Jobs : JobCrash(j)
    \/ HandlerBatch
    \/ HandlerInsertFails
    \/ HandlerSignal

Spec == Init /\ [][Next]_vars

\* ------------------------------------------------------------------ the sel branch alone
\* The first count letters as keywords, in order.
Letters(count) == [k \in 1..count |-> <<Alphabet[k]>>]

\* main at line 251 of a sel run: count keywords for at least as many browser
\* instances, no proxy and use_own_ip set; the jobs are constructed.
InitSel ==
    /\ pc = "start_jobs"
    /\ outcome = "running"
    /\ cfg_keywords = None
    /\ keyword = None
    /\ kwfile = None
    /\ file_text = None
    /\ keywords = {}
    /\ use_own_ip = TRUE
    /\ proxies = <<None>>
    /\ search_type = "unread"
    /\ simulate = FALSE
    /\ conn = "open"
    /\ scrapemethod = "sel"
    /\ num_scrapers = 0
    /\ remaining = <<>>
    /\ kwgroups = <<>>
    /\ \E count \in 0..MaxJobs :
        /\ scrapejobs = SelScrapeJobs(AssignKeywordsToScrapers(Letters(count), count),
                                      proxies)
        /\ jobState = [j \in 1..count |-> "new"]
        /\ emitted = [j \in 1..count |-> 0]
    /\ t = 1
    /\ Q = <<>>
    /\ handler = "none"
    /\ commit_interval = 1
    /\ i = 0
    /\ dequeued = <<>>
    /\ rows = <<>>
    /\ committed = 0
    /\ commits = 0

NextSel ==
    \/ StartJob
    \/ StartHandler
    \/ JoinJob
    \/ PutSignal
    \/ JoinHandler
    \/ Commit
    \/ Return
    \/ \E j \in Jobs : JobPut(j)
    \/ \E j \in Jobs : JobFinish(j)
    \/ \E j \in Jobs : JobCrash(j)
    \/ HandlerBatch
    \/ HandlerInsertFails
    \/ HandlerSignal

SpecSel == InitSel /\ [][NextSel]_vars

\* ------------------------------------------------------------------ the partitioning alone
\* The orders a set of keywords may be iterated in.
Orders(count) ==
    {order \in [1..count -> Range(Letters(count))] :
        \A a, b \in 1..count : a # b => order[a] # order[b]}

\* main at line 228 with any keywords in any order, any worker count from 1
\* and any pool of proxies, the last of which may be None (use_own_ip).
InitAssign ==
    /\ pc = "assign"
    /\ outcome = "running"
    /\ cfg_keywords = None
    /\ keyword = None
    /\ kwfile = None
    /\ file_text = None
    /\ keywords = {}
    /\ \E own \in BOOLEAN : use_own_ip = own
    /\ \E count \in 1..PartProxies :
        proxies = IF use_own_ip
                  THEN Append(SubSeq(ProxyNames, 1, count - 1), None)
                  ELSE SubSeq(ProxyNames, 1, count)
    /\ search_type = "unread"
    /\ simulate = FALSE
    /\ conn = "open"
    /\ scrapemethod = "sel"
    /\ num_scrapers \in 1..PartWorkers
    /\ \E count \in 0..PartKeywords : remaining \in Orders(count)
    /\ kwgroups = <<>>
    /\ scrapejobs = <<>>
    /\ jobState = <<>>
    /\ emitted = <<>>
    /\ t = 0
    /\ Q = <<>>
    /\ handler = "none"
    /\ commit_interval = 1
    /\ i = 0
    /\ dequeued = <<>>
    /\ rows = <<>>
    /\ committed = 0
    /\ commits = 0

\* Line 228 taken alone.
AssignAlone ==
    /\ pc = "assign"
    /\ kwgroups' = AssignKeywordsToScrapers(remaining, num_scrapers)
    /\ pc' = "dispatch"
    /\ UNCHANGED <<outcome, inputVars, proxyVars, flagVars, conn, scrapemethod, num_scrapers,
                   remaining, jobVars, Q, handlerVars, dbVars>>

\* Lines 247-249 taken alone.
ConstructAlone ==
    /\ pc = "dispatch"
    /\ scrapejobs' = SelScrapeJobs(kwgroups, proxies)
    /\ jobState' = [j \in 1..Len(kwgroups) |-> "new"]
    /\ emitted' = [j \in 1..Len(kwgroups) |-> 0]
    /\ t' = 1
    /\ pc' = "start_jobs"
    /\ UNCHANGED <<outcome, inputVars, proxyVars, flagVars, conn, planVars, Q, handlerVars,
                   dbVars>>

NextAssign == AssignAlone \/ ConstructAlone

SpecAssign == InitAssign /\ [][NextAssign]_vars

\* ------------------------------------------------------------------ claims
\* The batches the scrape jobs have put on Q so far.
PutBatches == UNION {{Batch(j, k) : k \in 1..emitted[j]} : j \in Jobs}
SignalPut == \E k \in 1..Len(Q) : IsSignal(Q[k])
SignalDequeued == \E k \in 1..Len(dequeued) : IsSignal(dequeued[k])
Times(table, e) == Cardinality({k \in 1..Len(table) : table[k] = e})

\* C1: in a sel run the termination signal is put only once every job has
\* ended, and when the handler dequeues it, it is the last item the handler
\* ever dequeues and every batch any job has put was dequeued before it.
C1_SignalAfterEveryBatch ==
    /\ (SignalPut \/ SignalDequeued) => \A j \in Jobs : Terminated(j)
    /\ \A k \in 1..Len(dequeued) :
        IsSignal(dequeued[k]) =>
            /\ k = Len(dequeued)
            /\ PutBatches \subseteq Range(SubSeq(dequeued, 1, k - 1))

\* C1's case: two jobs at least have put batches, MaxBatches in all, and the
\* handler has dequeued the signal.
C1_Witness ==
    /\ handler = "stopped"
    /\ Sum(emitted) = MaxBatches
    /\ Cardinality({j \in Jobs : emitted[j] > 0}) >= 2

\* C2: in a sel run in which no insert fails, once the handler has processed
\* the termination signal every batch put by any job is in storage exactly
\* once, storage holds nothing else and Q is empty; and main is done only
\* after the handler has processed the signal.
C2_EveryBatchInsertedOnce ==
    /\ handler = "stopped" =>
        /\ \A b \in PutBatches : Times(rows, b) = 1
        /\ Len(rows) = Cardinality(PutBatches)
        /\ Q = <<>>
    /\ (pc = "done" /\ handler # "crashed") => handler = "stopped"

\* C2's case: main has returned from a run without a failed insert in which
\* two jobs at least have put batches, MaxBatches in all.
C2_Witness ==
    /\ pc = "done"
    /\ handler = "stopped"
    /\ Len(rows) = MaxBatches
    /\ Cardinality({j \in Jobs : emitted[j] > 0}) >= 2

\* C3: once ResultsHandler.run has processed exactly commit_interval batches,
\* it has issued a commit.
C3_CommitAfterInterval ==
    (handler # "none" /\ i = commit_interval) => commits >= 1

\* C4: the batches inserted and not yet committed are at most
\* commit_interval - 1.
C4_UncommittedBelowInterval ==
    handler # "none" => Len(rows) - committed <= commit_interval - 1

\* C5: for more keywords than workers, assign_keywords_to_scrapers returns as
\* many groups as there are workers, each of size ceil(|K| / W).
C5_OneGroupPerWorker ==
    (pc # "assign" /\ Len(remaining) > num_scrapers) =>
        /\ Len(kwgroups) = num_scrapers
        /\ \A g \in 1..Len(kwgroups) :
            Len(kwgroups[g]) = Ceil(Len(remaining), num_scrapers)

\* The places of the groups that hold the entry e.
Places(groups, e) ==
    UNION {{<<g, k>> : k \in {m \in 1..Len(groups[g]) : groups[g][m] = e}} :
              g \in 1..Len(groups)}

\* C6: the groups partition the keywords: every keyword is at exactly one
\* place of exactly one group, every entry that is not the placeholder is a
\* keyword, and for no more keywords than workers the groups are one
\* singleton per keyword, with no placeholder.
C6_GroupsPartitionKeywords ==
    pc # "assign" =>
        /\ \A kw \in Range(remaining) : Cardinality(Places(kwgroups, kw)) = 1
        /\ \A g \in 1..Len(kwgroups) :
            Range(kwgroups[g]) \subseteq Range(remaining) \cup {None}
        /\ Len(remaining) <= num_scrapers =>
            /\ Len(kwgroups) = Len(remaining)
            /\ \A g \in 1..Len(kwgroups) :
                Len(kwgroups[g]) = 1 /\ kwgroups[g][1] # None

\* C6's case: more keywords than workers, and a last group that is padded.
C6_Witness ==
    /\ pc # "assign"
    /\ Len(remaining) = PartKeywords
    /\ Len(remaining) > num_scrapers
    /\ Places(kwgroups, None) # {}

\* C7: no scrape job is constructed on a keyword group that holds the
\* placeholder.
C7_NoPlaceholderDispatched ==
    \A j \in Jobs : None \notin Range(scrapejobs[j].chunk)

\* The proxies the constructed jobs were given.
UsedProxies == {scrapejobs[j].proxy : j \in Jobs}
EveryProxyUsed == UsedProxies = Range(proxies)

\* C8 as stated: every proxy of the pool is given to a job if and only if
\* there are at least as many groups as proxies.
C8_EveryProxyUsedIffEnoughGroups ==
    (pc = "start_jobs" /\ Len(kwgroups) >= 1) =>
        (EveryProxyUsed <=> Len(kwgroups) >= Len(proxies))

\* C8 as amended: every proxy of the pool is given to a job if and only if
\* (P - 1) * ceil(G / P) < G, for G groups and P proxies; that needs G >= P.
C8_EveryProxyUsedIffLastChunkStarts ==
    (pc = "start_jobs" /\ Len(kwgroups) >= 1) =>
        /\ EveryProxyUsed <=>
            (Len(proxies) - 1) * Ceil(Len(kwgroups), Len(proxies)) < Len(kwgroups)
        /\ EveryProxyUsed => Len(kwgroups) >= Len(proxies)

\* C8's case: more groups than proxies and still a proxy that no job is given.
C8_Witness ==
    /\ pc = "start_jobs"
    /\ Len(kwgroups) > Len(proxies)
    /\ ~EveryProxyUsed

\* main has taken the sel or the http branch.
Dispatched == scrapemethod \in {"sel", "http"} /\ pc \notin {"assign", "dispatch"}

\* C9: a sel or http run dispatched with no proxy and use_own_ip unset ends
\* with InvalidConfigurationException, no job and no handler started.
C9_NoProxyNoStart ==
    (Dispatched /\ proxies = <<>> /\ ~use_own_ip) =>
        /\ pc = "done"
        /\ outcome = "InvalidConfigurationException"
        /\ \A j \in Jobs : jobState[j] = "new"
        /\ handler = "none"

\* C10: with no keyword, an absent or empty 'keywords' setting and no keyword
\* file, main ends with InvalidConfigurationException at line 175, with no
\* proxies loaded and no connection opened.
C10_NoKeywordIsRefused ==
    (keyword = None /\ cfg_keywords = <<>> /\ kwfile = None) =>
        /\ pc = "done"
        /\ outcome = "InvalidConfigurationException"
        /\ conn = "none"

\* C11: a search type outside valid_search_types ends main with
\* InvalidConfigurationException at lines 203-205, before maybe_create_db
\* (line 208), the partitioning and the start of any job.
C11_InvalidSearchTypeIsRefused ==
    (search_type \notin valid_search_types \cup {"unread"}) =>
        /\ pc = "done"
        /\ outcome = "InvalidConfigurationException"
        /\ conn = "none"
        /\ kwgroups = <<>>
        /\ scrapejobs = <<>>

\* main has returned normally: a return statement was reached, no exception.
ReturnedNormally == pc = "done" /\ outcome \in {"None", "conn"}

\* C12: a run that reaches line 228 with scrape method http_async ends with an
\* error, whatever keywords remain; it never returns normally.
C12_HttpAsyncEndsWithError ==
    scrapemethod = "http_async" => ~ReturnedNormally

\* C13: a run that reaches line 228 with a scrape method other than sel, http
\* and http_async ends with InvalidConfigurationException, whatever keywords
\* remain: with no other error and no normal return.
C13_UnknownMethodIsRefused ==
    (scrapemethod \notin {"unread", "sel", "http", "http_async"} /\ pc = "done") =>
        outcome = "InvalidConfigurationException"

\* The batches still in Q.
BatchesInQ == {Q[k] : k \in {n \in 1..Len(Q) : ~IsSignal(Q[n])}}

\* C14: after an insert of the ResultsHandler has failed main does not return
\* normally (it does not return the connection), and when main has ended no
\* batch is left in Q.
C14_InsertFailureIsReported ==
    handler = "crashed" =>
        /\ ~ReturnedNormally
        /\ pc = "done" => BatchesInQ = {}

\* C15: a run in which a job ended by a crash does not end as a run in which
\* every job finished does, with a normal return of main.
C15_CrashedJobIsSurfaced ==
    (\E j \in Jobs : jobState[j] = "crashed") => ~ReturnedNormally

\* The distinct non-empty keyword lines of a text.
NonEmptyLines(text) == {Strip(l) : l \in Range(Split(text, NL))} \ {<<>>}

\* C16: the keywords loaded from a keyword file are exactly the distinct
\* non-empty keyword lines of the file: "a\na\nb\n" gives {a, b}, and the
\* empty text is no keyword.
C16_FileKeywordsAreNonEmptyLines ==
    file_text # None =>
        /\ keywords = NonEmptyLines(file_text)
        /\ file_text = <<"a", NL, "a", NL, "b", NL>> => keywords = {<<"a">>, <<"b">>}

\* ------------------------------------------------------------------ main alone
\* main from its first line to the start of its threads (lines 146-255): the
\* steps that decide whether anything is constructed and started at all. The
\* threads act only once main has started them, so they are left out here.
NextMain ==
    \/ ParseCmdArgs
    \/ ReadInputs
    \/ FixCacheNames
    \/ LoadKeywords
    \/ CheckParameters
    \/ LoadProxies
    \/ CheckSearchType
    \/ Simulate
    \/ Cache
    \/ Assign
    \/ DispatchSel
    \/ DispatchHttp
    \/ DispatchHttpAsync
    \/ DispatchOther
    \/ StartJob
    \/ StartHandler

SpecMain == Init /\ [][NextMain]_vars

\* C17: with the simulate flag set main returns at line 220 (None) without
\* reaching the cache step, the partitioning or the dispatch: no keyword group
\* is computed, no job and no ResultsHandler is constructed or started and
\* nothing is put on Q, whatever the keywords and the configuration.
C17_SimulateStartsNothing ==
    simulate =>
        /\ pc = "done" /\ outcome = "None"
        /\ scrapemethod = "unread"
        /\ remaining = <<>> /\ kwgroups = <<>>
        /\ scrapejobs = <<>> /\ t = 0
        /\ handler = "none"
        /\ Q = <<>>

\* C17's case: a simulated run over several keywords has returned.
C17_Witness ==
    /\ simulate
    /\ pc = "done"
    /\ Cardinality(keywords) >= 2
    /\ conn = "open"

\* C18: once the handler has dequeued the termination signal and stopped it
\* dequeues and inserts nothing more, and a commit follows the last insert:
\* when main has returned from a sel run every inserted batch is committed,
\* whatever the batches and the commit interval.
C18_StoppedForGoodAndAllCommitted ==
    /\ [](pc = "done" => committed = Len(rows))
    /\ [][handler = "stopped" =>
            (handler' = "stopped" /\ dequeued' = dequeued /\ rows' = rows /\ i' = i)]_vars

\* C18's case: main has returned from a run whose handler inserted batches,
\* committed none of them itself and stopped on the signal.
C18_Witness ==
    /\ pc = "done"
    /\ handler = "stopped"
    /\ Len(rows) >= 2
    /\ commits = 0

\* main is at a line that uses the connection: parse_all_cached_files (224),
\* ResultsHandler(Q, conn) (254), conn.commit() (264), conn.close() (269).
MainAtConnection == pc \in {"cache", "start_handler", "commit", "return"}

\* C19: in a sel run the connection is never used by two threads at once.
\* While the handler thread is alive main is at no line that uses the
\* connection, and every change of the rows or of what is committed is then a
\* step of the handler, not of main; main uses the connection only before the
\* handler is started or after it has ended.
C19_OneThreadOnConnection ==
    /\ [](MainAtConnection => handler # "running")
    /\ [][(handler = "running" /\ <<rows, committed, conn>>' # <<rows, committed, conn>>)
            => (pc' = pc /\ dequeued' # dequeued)]_vars

\* C19's case: the handler is alive and has written while main waits for it.
C19_Witness ==
    /\ handler = "running"
    /\ pc = "join_handler"
    /\ rows # <<>>
    /\ committed > 0

\* ------------------------------------------------------------------ fair sel run
\* A step of main in the sel branch, a step of the handler thread, and the end
\* of job j.
MainStepSel ==
    StartJob \/ StartHandler \/ JoinJob \/ PutSignal \/ JoinHandler \/ Commit \/ Return
HandlerStep == HandlerBatch \/ HandlerInsertFails \/ HandlerSignal
JobEnds(j) == j \in Jobs /\ (JobFinish(j) \/ JobCrash(j))

\* The threads are scheduled fairly: main and the handler thread each take a
\* step when they can (Q.get and join block only while there is nothing to get
\* or to join), and every started job ends, as C20 supposes. Whether a job
\* puts another batch, and whether an insert fails, is left open.
FairSel ==
    /\ WF_vars(MainStepSel)
    /\ WF_vars(HandlerStep)
    /\ \A j \in 1..MaxFairJobs : WF_vars(JobEnds(j))

\* The sel run at line 251 with at most MaxFairJobs jobs.
InitFair == InitSel /\ Len(scrapejobs) <= MaxFairJobs

FairSpecSel == InitFair /\ [][NextSel]_vars /\ FairSel

\* While a job has not ended the signal is not put and the handler has not
\* stopped.
NoSignalBeforeJobsEnd ==
    (\E j \in Jobs : ~Terminated(j)) =>
        /\ ~SignalPut /\ ~SignalDequeued
        /\ handler # "stopped"

====
